---------------------------- MODULE Spec2Model ----------------------------
(***************************************************************************)
(* Model of lhls_faker (main.go): a fake low-latency HLS origin.  One      *)
(* handler object, FakeLHLSManifestHandler, holds the decoded playlist,    *)
(* its total duration and the stream clock startTime.  ServeManifest       *)
(* computes the live window from the elapsed time, ServeSegment gates and  *)
(* rate-shapes one segment, and the /live/ mount serves files verbatim.    *)
(*                                                                         *)
(* Time is counted in ticks, TicksPerSecond to the second, so that the     *)
(* float64 seconds of the code keep a fractional part.                     *)
(***************************************************************************)
EXTENDS Integers, Sequences, FiniteSets, TLC

(***************************************************************************)
(* Bounds of the model.                                                    *)
(***************************************************************************)
TicksPerSecond == 2      \* resolution of the clock
MaxNow == 12             \* the wall clock stops advancing here
MaxReq == 1              \* concurrent segment requests (goroutines)

(***************************************************************************)
(* Program constants.                                                      *)
(***************************************************************************)
futureTime == 5          \* const futureTime = 5.0 (seconds)
winsize == 10            \* m3u8.NewMediaPlaylist(10, 10): winsize
capacity == 10           \* m3u8.NewMediaPlaylist(10, 10): capacity
threeTargets == 3        \* 3 * l.playlist.TargetDuration
rateFloor == 1           \* math.Max(..., 1.0) (seconds)

VARIABLES
    playlist,     \* l.playlist: [Segments, TargetDuration]
    duration,     \* l.duration
    startTime,    \* l.startTime
    now,          \* the wall clock, time.Now()
    files,        \* the names of the files of baseDir
    foldingFS,    \* TRUE when the file system matches names case-insensitively
    req,          \* the ServeSegment goroutines
    man,          \* the outcome of ServeManifest, when it was the last step
    live          \* the outcome of the /live/ file server, when it was the last step

vars == <<playlist, duration, startTime, now, files, foldingFS, req, man, live>>

Max(a, b) == IF a >= b THEN a ELSE b
Min(a, b) == IF a <= b THEN a ELSE b

Seconds(n) == n * TicksPerSecond

(***************************************************************************)
(* Names.  A URL path is a mount ("/lhls/" or "/live/") followed by a file *)
(* name; the names are the segment URIs "s1.ts", "s2.ts", ..., their upper *)
(* case forms, the playlist file, the manifest and a name that is no file. *)
(***************************************************************************)
SegmentURIs ==
    <<"s1.ts", "s2.ts", "s3.ts", "s4.ts", "s5.ts", "s6.ts", "s7.ts", "s8.ts", "s9.ts",
      "s10.ts", "s11.ts", "s12.ts">>
UpperURIs ==
    <<"S1.TS", "S2.TS", "S3.TS", "S4.TS", "S5.TS", "S6.TS", "S7.TS", "S8.TS", "S9.TS",
      "S10.TS", "S11.TS", "S12.TS">>
ManifestName == "manifest.m3u8"
PlaylistFile == "playlist.m3u8"
LhlsMount == "/lhls/"
LiveMount == "/live/"

\* unicode simple case folding of a whole name
FoldTable ==
    [n \in {UpperURIs[k] : k \in DOMAIN UpperURIs} |->
        SegmentURIs[CHOOSE k \in DOMAIN UpperURIs : UpperURIs[k] = n]]
Fold(name) == IF name \in DOMAIN FoldTable THEN FoldTable[name] ELSE name

\* strings.EqualFold
EqualFold(s, t) == Fold(s) = Fold(t)

\* a request path and its parts
Path(mount, name) == [mount |-> mount, name |-> name]

\* strings.HasSuffix(path, "manifest.m3u8"): of the names above, the manifest
HasManifestSuffix(path) == path.name = ManifestName

\* strings.HasPrefix(path, mount)
HasPrefix(path, mount) == path.mount = mount

(***************************************************************************)
(* The playlist as m3u8.DecodeFrom leaves it: Segments is a slice of       *)
(* *MediaSegment whose unused tail entries are nil (main skips them with   *)
(* "if segment != nil"); a playlist that fills the slice has no nil tail.  *)
(***************************************************************************)
NilSegment == [isNil |-> TRUE, URI |-> "", Duration |-> 0]
MediaSegment(uri, d) == [isNil |-> FALSE, URI |-> uri, Duration |-> d]

SegmentURI(i) == SegmentURIs[i]

\* the playlists read: segment durations in ticks and the EXT-X-TARGETDURATION
\* tag in seconds
Inputs ==
    { [durs |-> <<1, 1, 1, 1, 1, 1, 1, 1, 1, 1, 1>>, tag |-> 1],
      [durs |-> <<2, 3, 3, 2, 3, 2>>, tag |-> 1] }

RECURSIVE MaxOf(_)
MaxOf(s) == IF s = <<>> THEN 0 ELSE Max(Head(s), MaxOf(Tail(s)))

\* math.Ceil of a number of ticks, to whole seconds
CeilSeconds(d) == ((d + TicksPerSecond - 1) \div TicksPerSecond) * TicksPerSecond

\* m3u8.DecodeFrom: the segments in order, then `pad` nil entries
DecodeFrom(in, pad) ==
    [ Segments |->
        [i \in 1..(Len(in.durs) + pad) |->
            IF i <= Len(in.durs) THEN MediaSegment(SegmentURI(i), in.durs[i])
            ELSE NilSegment],
      TargetDuration |-> Max(Seconds(in.tag), CeilSeconds(MaxOf(in.durs))) ]

\* main: duration += segment.Duration for every non-nil segment
RECURSIVE SumDurations(_)
SumDurations(segs) ==
    IF segs = <<>> THEN 0
    ELSE (IF Head(segs).isNil THEN 0 ELSE Head(segs).Duration) + SumDurations(Tail(segs))

\* the segment files of the playlist directory, and the playlist file itself
Directory(in, missing) ==
    ({SegmentURI(i) : i \in 1..Len(in.durs)} \ missing) \cup {PlaylistFile}

\* the size in bytes of the file of that name
FileSize(name) ==
    IF name = PlaylistFile THEN 40
    ELSE 600 + 100 * ((CHOOSE i \in DOMAIN SegmentURIs : SegmentURIs[i] = name) % 2)

\* the deployments: the nil entries DecodeFrom leaves after the segments, the
\* case rule of the file system, and the segment files missing from the directory
Deployments ==
    { [pad |-> 1, folding |-> FALSE, missing |-> {}],
      [pad |-> 1, folding |-> TRUE, missing |-> {}],
      [pad |-> 0, folding |-> FALSE, missing |-> {SegmentURI(1)}] }

(***************************************************************************)
(* The initial state: main has decoded the playlist and built the handler. *)
(***************************************************************************)
Slots == DOMAIN req
NoRate == [bytes |-> 0, per |-> 1]
IdleReq == [pc |-> "idle", name |-> "", seg |-> 0, until |-> 0, gated |-> FALSE,
            rateDuration |-> 0, rateLimit |-> NoRate, status |-> "none"]
NoManifest == [status |-> "none"]
NoLive == [status |-> "none"]

Init ==
    \E in \in Inputs, d \in Deployments :
        /\ playlist = DecodeFrom(in, d.pad)
        /\ duration = SumDurations(DecodeFrom(in, d.pad).Segments)
        /\ files = Directory(in, d.missing)
        /\ foldingFS = d.folding
        /\ startTime = 0
        /\ now = 0
        /\ req = [r \in 1..MaxReq |-> IdleReq]
        /\ man = NoManifest
        /\ live = NoLive

\* the same server with two goroutines at least, on the six-segment playlist
\* with its nil tail
InitPair ==
    LET in == [durs |-> <<2, 3, 3, 2, 3, 2>>, tag |-> 1] IN
        /\ playlist = DecodeFrom(in, 1)
        /\ duration = SumDurations(DecodeFrom(in, 1).Segments)
        /\ files = Directory(in, {})
        /\ foldingFS = FALSE
        /\ startTime = 0
        /\ now = 0
        /\ req = [r \in 1..Max(MaxReq, 2) |-> IdleReq]
        /\ man = NoManifest
        /\ live = NoLive

(***************************************************************************)
(* The wall clock.  A sleeping goroutine wakes when its timer expires and  *)
(* a transfer ends when its last byte is written, so the clock does not    *)
(* run past the earliest of those instants.  man, live and a slot in pc     *)
(* "done" hold the response of the step just taken, and are blank after    *)
(* the next step.                                                          *)
(***************************************************************************)
\* a slot whose goroutine has returned is free again
Settled == [r \in Slots |-> IF req[r].pc = "done" THEN IdleReq ELSE req[r]]

Tick ==
    /\ now < MaxNow
    /\ \A r \in Slots : req[r].pc \in {"sleeping", "streaming"} => now < req[r].until
    /\ now' = now + 1
    /\ req' = Settled
    /\ man' = NoManifest
    /\ live' = NoLive
    /\ UNCHANGED <<playlist, duration, startTime, files, foldingFS>>

\* time.Since(l.startTime).Seconds()
Until(t) == t - now
Since(t) == now - t

(***************************************************************************)
(* ServeManifest.                                                          *)
(***************************************************************************)
\* uint64(sequence), as four 16-bit limbs, most significant first
Uint64(n) ==
    IF n >= 0 THEN <<0, 0, 0, n>>
    ELSE <<65535, 65535, 65535, 65536 + n>>

\* m3u8.NewMediaPlaylist(winsize, capacity)
NewMediaPlaylist == [Segments |-> <<>>, count |-> 0, SeqNo |-> Uint64(0)]

\* MediaPlaylist.AppendSegment: ErrPlaylistFull when the ring is full; the
\* caller drops the error
AppendSegment(p, segment) ==
    IF p.count = capacity THEN p
    ELSE [p EXCEPT !.Segments = Append(@, segment), !.count = @ + 1]

\* MediaPlaylist.Encode: the media sequence and at most winsize segments
Encode(p) ==
    [SeqNo |-> p.SeqNo,
     Segments |-> SubSeq(p.Segments, 1, Min(winsize, p.count))]

\* the inclusion test and the stop test of the window loop
IncludedNoMargin(curDuration, curStreamTime) == curDuration > curStreamTime
Included(curDuration, curStreamTime) ==
    curDuration + threeTargets * playlist.TargetDuration > curStreamTime
PastHorizonTwice(curDuration, curStreamTime) ==
    curDuration > curStreamTime + 2 * Seconds(futureTime)
PastHorizon(curDuration, curStreamTime) ==
    curDuration > curStreamTime + Seconds(futureTime)

\* the first included segment sets the sequence number
FirstIncludedFromOne(sequence, i) == IF sequence = -1 THEN i + 1 ELSE sequence
FirstIncluded(sequence, i) == IF sequence = -1 THEN i ELSE sequence

\* the range loop over l.playlist.Segments, from entry i on (i counts from 1,
\* the loop index of the code is i - 1); a nil entry panics on segment.Duration
RECURSIVE WindowLoopNoSum(_, _, _, _, _)
WindowLoopNoSum(i, curDuration, sequence, curPlaylist, curStreamTime) ==
    IF i > Len(playlist.Segments)
    THEN [panic |-> FALSE, sequence |-> sequence, curPlaylist |-> curPlaylist]
    ELSE LET segment == playlist.Segments[i] IN
         IF segment.isNil
         THEN [panic |-> TRUE, sequence |-> sequence, curPlaylist |-> curPlaylist]
         ELSE LET cur == segment.Duration
                  inc == Included(cur, curStreamTime)
                  seq == IF inc THEN FirstIncluded(sequence, i - 1) ELSE sequence
                  pl  == IF inc THEN AppendSegment(curPlaylist, segment) ELSE curPlaylist
              IN  IF PastHorizon(cur, curStreamTime)
                  THEN [panic |-> FALSE, sequence |-> seq, curPlaylist |-> pl]
                  ELSE WindowLoopNoSum(i + 1, cur, seq, pl, curStreamTime)

RECURSIVE WindowLoop(_, _, _, _, _)
WindowLoop(i, curDuration, sequence, curPlaylist, curStreamTime) ==
    IF i > Len(playlist.Segments)
    THEN [panic |-> FALSE, sequence |-> sequence, curPlaylist |-> curPlaylist]
    ELSE LET segment == playlist.Segments[i] IN
         IF segment.isNil
         THEN [panic |-> TRUE, sequence |-> sequence, curPlaylist |-> curPlaylist]
         ELSE LET cur == curDuration + segment.Duration
                  inc == Included(cur, curStreamTime)
                  seq == IF inc THEN FirstIncluded(sequence, i - 1) ELSE sequence
                  pl  == IF inc THEN AppendSegment(curPlaylist, segment) ELSE curPlaylist
              IN  IF PastHorizon(cur, curStreamTime)
                  THEN [panic |-> FALSE, sequence |-> seq, curPlaylist |-> pl]
                  ELSE WindowLoop(i + 1, cur, seq, pl, curStreamTime)

\* "Reset stream if duration has passed"
ResetDueAtTotal(curStreamTime) == duration <= curStreamTime
ResetDue(curStreamTime) == duration < curStreamTime

\* a panic unwinds the handler before anything is written: no response
ServeManifest(path) ==
    LET read == Since(startTime)
        reset == ResetDue(read)
        curStreamTime == IF reset THEN 0 ELSE read
        out == WindowLoop(1, 0, -1, NewMediaPlaylist, curStreamTime)
        body == Encode([out.curPlaylist EXCEPT !.SeqNo = Uint64(out.sequence)])
    IN  /\ startTime' = IF reset THEN now ELSE startTime
        /\ man' = [status |-> IF out.panic THEN "panic" ELSE "200",
                   path |-> path,
                   read |-> read, reset |-> reset, curStreamTime |-> curStreamTime,
                   sequence |-> out.sequence,
                   SeqNo |-> body.SeqNo, Segments |-> body.Segments]
        /\ req' = Settled
        /\ live' = NoLive
        /\ UNCHANGED <<playlist, duration, now, files, foldingFS>>

(***************************************************************************)
(* ServeSegment.                                                           *)
(***************************************************************************)
\* os.Open(path.Join(l.baseDir, name)): the file of that name, if any
Opened(name) ==
    IF name \in files THEN {name}
    ELSE IF foldingFS THEN {f \in files : EqualFold(f, name)}
    ELSE {}

\* the lookup loop: the first segment whose URI folds to the request's, with
\* the durations before it summed; a nil entry panics on curSegment.URI
RECURSIVE FindSegment(_, _, _)
FindSegment(i, segmentStartTime, name) ==
    IF i > Len(playlist.Segments)
    THEN [panic |-> FALSE, seg |-> 0, segmentStartTime |-> segmentStartTime]
    ELSE LET curSegment == playlist.Segments[i] IN
         IF curSegment.isNil
         THEN [panic |-> TRUE, seg |-> 0, segmentStartTime |-> segmentStartTime]
         ELSE IF EqualFold(curSegment.URI, name)
              THEN [panic |-> FALSE, seg |-> i, segmentStartTime |-> segmentStartTime]
              ELSE FindSegment(i + 1, segmentStartTime + curSegment.Duration, name)

\* time.Duration(sleepDuration) * time.Second: the float is truncated to an
\* integer before it is scaled to seconds
SleepTimeInTicks(sleepDuration) == sleepDuration * TicksPerSecond
SleepTime(sleepDuration) == (sleepDuration \div TicksPerSecond) * TicksPerSecond

\* math.Max(segmentStartTime+segment.Duration-curStreamTime, 1.0)
RateDurationNoFloor(segmentStartTime, segmentDuration, curStreamTime) ==
    segmentStartTime + segmentDuration - curStreamTime
RateDuration(segmentStartTime, segmentDuration, curStreamTime) ==
    Max(segmentStartTime + segmentDuration - curStreamTime, Seconds(rateFloor))

\* float64(fileInfo.Size()) / rateDuration, as the exact ratio bytes / ticks
RateLimit(size, rateDuration) == [bytes |-> size, per |-> rateDuration]

\* the time shapeio takes to write `size` bytes at `rate`
TransferTime(size, rate) ==
    IF rate.bytes = 0 THEN 0 ELSE (size * rate.per) \div rate.bytes

\* lines 85-95: the rate is set, the header is written and the copy starts
Shaped(r, name, seg, segmentStartTime, curStreamTime, size, gated) ==
    LET rateDuration == RateDuration(segmentStartTime, playlist.Segments[seg].Duration,
                                     curStreamTime)
        rateLimit == RateLimit(size, rateDuration)
    IN  [pc |-> "streaming", name |-> name, seg |-> seg,
         until |-> now + TransferTime(size, rateLimit), gated |-> gated,
         rateDuration |-> rateDuration, rateLimit |-> rateLimit, status |-> "200"]

Failed(name, status) == [IdleReq EXCEPT !.pc = "done", !.name = name, !.status = status]

StartOffset(seg) == FindSegment(1, 0, playlist.Segments[seg].URI).segmentStartTime

\* the size os.Stat reports for the opened file
SizeOf(name) == FileSize(CHOOSE f \in Opened(name) : TRUE)

\* a request arrives and runs up to time.Sleep, or to io.Copy when not gated
ServeSegment(r, path) ==
    LET name == path.name
        found == FindSegment(1, 0, name)
        curStreamTime == Since(startTime)
    IN  /\ req[r].pc \in {"idle", "done"}
        /\ \A q \in 1..(r - 1) : req[q].pc \notin {"idle", "done"}
        /\ req' = [Settled EXCEPT ![r] =
             IF Opened(name) = {} THEN Failed(name, "404")
             ELSE IF found.panic THEN Failed(name, "panic")
             ELSE IF found.seg = 0 THEN Failed(name, "404")
             ELSE IF found.segmentStartTime > curStreamTime
                  THEN [IdleReq EXCEPT !.pc = "sleeping", !.name = name, !.seg = found.seg,
                            !.gated = TRUE,
                            !.until = now + SleepTime(found.segmentStartTime - curStreamTime)]
                  ELSE Shaped(r, name, found.seg, found.segmentStartTime, curStreamTime,
                              SizeOf(name), FALSE)]
        /\ man' = NoManifest /\ live' = NoLive
        /\ UNCHANGED <<playlist, duration, startTime, now, files, foldingFS>>

\* time.Sleep returns: curStreamTime = segmentStartTime, then the shaping
WakeRemeasures(r) ==
    /\ req[r].pc = "sleeping"
    /\ now = req[r].until
    /\ req' = [Settled EXCEPT ![r] =
            Shaped(r, req[r].name, req[r].seg, StartOffset(req[r].seg),
                   Since(startTime), SizeOf(req[r].name), TRUE)]
    /\ man' = NoManifest /\ live' = NoLive
    /\ UNCHANGED <<playlist, duration, startTime, now, files, foldingFS>>
WakeMovesClock(r) ==
    /\ req[r].pc = "sleeping"
    /\ now = req[r].until
    /\ req' = [Settled EXCEPT ![r] =
            Shaped(r, req[r].name, req[r].seg, StartOffset(req[r].seg),
                   StartOffset(req[r].seg), SizeOf(req[r].name), TRUE)]
    /\ man' = NoManifest /\ live' = NoLive
    /\ startTime' = now - StartOffset(req[r].seg)
    /\ UNCHANGED <<playlist, duration, now, files, foldingFS>>
Wake(r) ==
    /\ req[r].pc = "sleeping"
    /\ now = req[r].until
    /\ req' = [Settled EXCEPT ![r] =
            Shaped(r, req[r].name, req[r].seg, StartOffset(req[r].seg),
                   StartOffset(req[r].seg), SizeOf(req[r].name), TRUE)]
    /\ man' = NoManifest /\ live' = NoLive
    /\ UNCHANGED <<playlist, duration, startTime, now, files, foldingFS>>

\* io.Copy returns: the file is exhausted
Finish(r) ==
    /\ req[r].pc = "streaming"
    /\ now = req[r].until
    /\ req' = [Settled EXCEPT ![r].pc = "done", ![r].until = 0]
    /\ man' = NoManifest /\ live' = NoLive
    /\ UNCHANGED <<playlist, duration, startTime, now, files, foldingFS>>

\* io.Copy returns: the client closed the connection mid-transfer
Disconnect(r) ==
    /\ req[r].pc = "streaming"
    /\ now < req[r].until
    /\ req' = [Settled EXCEPT ![r].pc = "done", ![r].until = 0, ![r].status = "closed"]
    /\ man' = NoManifest /\ live' = NoLive
    /\ UNCHANGED <<playlist, duration, startTime, now, files, foldingFS>>

(***************************************************************************)
(* The routes of main and the dispatch of ServeHTTP.                       *)
(***************************************************************************)
\* http.FileServer under http.StripPrefix("/live/"): the file as it is
FileServer(path) ==
    LET name == path.name IN
    /\ live' = IF Opened(name) = {} THEN [status |-> "404", name |-> name, size |-> 0]
               ELSE [status |-> "200", name |-> name, size |-> SizeOf(name)]
    /\ man' = NoManifest
    /\ req' = Settled
    /\ UNCHANGED <<playlist, duration, startTime, now, files, foldingFS>>

\* http.NotFound, the last branch of ServeHTTP
NotFound(path) ==
    /\ live' = [status |-> "404", name |-> path.name, size |-> 0]
    /\ man' = NoManifest
    /\ req' = Settled
    /\ UNCHANGED <<playlist, duration, startTime, now, files, foldingFS>>

ServeHTTP(path) ==
    IF HasManifestSuffix(path) THEN ServeManifest(path)
    ELSE IF HasPrefix(path, LhlsMount) THEN \E r \in Slots : ServeSegment(r, path)
    ELSE NotFound(path)

\* the ServeMux: the longest matching pattern wins
MuxWithoutFileServer(path) == ServeHTTP(path)
MuxOneAtATime(path) ==
    /\ \A r \in Slots : req[r].pc # "sleeping"
    /\ IF path = Path(LiveMount, ManifestName) THEN ServeHTTP(path)
       ELSE IF HasPrefix(path, LiveMount) THEN FileServer(path)
       ELSE ServeHTTP(path)
Mux(path) ==
    IF path = Path(LiveMount, ManifestName) THEN ServeHTTP(path)
    ELSE IF HasPrefix(path, LiveMount) THEN FileServer(path)
    ELSE ServeHTTP(path)

\* the requests clients make: the first, second and last segment, the second
\* in upper case, a name that is no file, the playlist file, and the manifest
Count == Len(SelectSeq(playlist.Segments, LAMBDA x : ~x.isNil))
Names ==
    {SegmentURI(1), SegmentURI(2), SegmentURI(Count), UpperURIs[2],
     "x.ts", PlaylistFile, ManifestName}
Paths ==
    {Path(LhlsMount, n) : n \in Names}
        \cup {Path(LiveMount, n) : n \in {SegmentURI(1), SegmentURI(2), ManifestName}}

Next ==
    \/ Tick
    \/ \E path \in Paths : Mux(path)
    \/ \E r \in Slots : Wake(r)
    \/ \E r \in Slots : Finish(r)
    \/ \E r \in Slots : Disconnect(r)

Spec == Init /\ [][Next]_vars

\* two clients at once: the manifest poller and the segment fetchers
PairPaths ==
    {Path(LhlsMount, n) : n \in {SegmentURI(1), SegmentURI(2), SegmentURI(Count), ManifestName}}
        \cup {Path(LiveMount, SegmentURI(1))}

NextPair ==
    \/ Tick
    \/ \E path \in PairPaths : Mux(path)
    \/ \E r \in Slots : Wake(r)
    \/ \E r \in Slots : Finish(r)
    \/ \E r \in Slots : Disconnect(r)

SpecPair == InitPair /\ [][NextPair]_vars

(***************************************************************************)
(* The server left running for ever.  Every handler reads the clock as a   *)
(* difference (time.Since, a sleep length), so the present is kept as the  *)
(* origin: now stays where it is and the instants held, startTime and the  *)
(* timers, recede by one tick.  Elapsed time is let grow to MaxNow; the    *)
(* playlists are shorter than that, one of them shorter than futureTime.   *)
(***************************************************************************)
LoopInputs ==
    { [durs |-> <<1, 1, 1, 1, 1, 1, 1, 1, 1, 1, 1>>, tag |-> 1],
      [durs |-> <<2, 3, 2>>, tag |-> 1] }

InitLoop ==
    \E in \in LoopInputs :
        /\ playlist = DecodeFrom(in, 1)
        /\ duration = SumDurations(DecodeFrom(in, 1).Segments)
        /\ files = Directory(in, {})
        /\ foldingFS = FALSE
        /\ startTime = 0
        /\ now = 0
        /\ req = [r \in 1..MaxReq |-> IdleReq]
        /\ man = NoManifest
        /\ live = NoLive

Elapse ==
    /\ Since(startTime) < MaxNow
    /\ \A r \in Slots : req[r].pc \in {"sleeping", "streaming"} => now < req[r].until
    /\ startTime' = startTime - 1
    /\ req' = [r \in Slots |->
                 IF req[r].pc \in {"sleeping", "streaming"}
                 THEN [req[r] EXCEPT !.until = @ - 1]
                 ELSE Settled[r]]
    /\ man' = NoManifest
    /\ live' = NoLive
    /\ UNCHANGED <<playlist, duration, now, files, foldingFS>>

Poll == Mux(Path(LhlsMount, ManifestName))

NextLoop ==
    \/ Elapse
    \/ Poll
    \/ \E path \in PairPaths \ {Path(LhlsMount, ManifestName)} : Mux(path)
    \/ \E r \in 1..MaxReq : Wake(r)
    \/ \E r \in 1..MaxReq : Finish(r)
    \/ \E r \in 1..MaxReq : Disconnect(r)

\* time does not stop while requests come in, timers fire and a copy that
\* has written its last byte returns
SpecLoop ==
    /\ InitLoop /\ [][NextLoop]_vars
    /\ SF_vars(Elapse)
    /\ \A r \in 1..MaxReq : WF_vars(Wake(r)) /\ WF_vars(Finish(r))

(***************************************************************************)
(* Quantities the properties are stated in.                                *)
(***************************************************************************)
Real == {i \in DOMAIN playlist.Segments : ~playlist.Segments[i].isNil}

\* cumulative duration up to and including segment i, and its start offset
Cumulative(i) == SumDurations(SubSeq(playlist.Segments, 1, i))
NominalStart(i) == SumDurations(SubSeq(playlist.Segments, 1, i - 1))

\* the segments a walk at elapsed time t visits before the stop condition, and
\* those among them that satisfy the inclusion condition
Visited(t) == {i \in Real : \A j \in 1..(i - 1) : Cumulative(j) <= t + Seconds(futureTime)}
Qualifying(t) ==
    {i \in Visited(t) : Cumulative(i) + threeTargets * playlist.TargetDuration > t}

\* the playlist positions of the segments of the manifest served
Positions ==
    {i \in Real : \E k \in DOMAIN man.Segments : man.Segments[k] = playlist.Segments[i]}

\* the value of a uint64 that fits one limb
Small(u) == u[1] = 0 /\ u[2] = 0 /\ u[3] = 0

Served == man.status = "200"

(***************************************************************************)
(* C1.  For every elapsed time t in [0, totalDuration), the window         *)
(* ServeManifest computes is a contiguous run of playlist segments, every  *)
(* one with cumulative duration above t - 3 * targetDuration and none with *)
(* a start offset above t + futureTime.                                    *)
(***************************************************************************)
WindowBounds ==
    (Served /\ man.curStreamTime < duration) =>
        /\ \E base \in 0..Len(playlist.Segments) :
              \A k \in DOMAIN man.Segments :
                  /\ base + k \in Real
                  /\ man.Segments[k] = playlist.Segments[base + k]
        /\ \A i \in Positions :
              /\ Cumulative(i) > man.curStreamTime - threeTargets * playlist.TargetDuration
              /\ NominalStart(i) <= man.curStreamTime + Seconds(futureTime)

\* a window that leaves out a segment too far in the future
WindowBoundsWitness ==
    /\ Served /\ man.curStreamTime < duration
    /\ Len(man.Segments) >= 2
    /\ \E i \in Real : NominalStart(i) > man.curStreamTime + Seconds(futureTime)

\* a window that has let go of the first segment
WindowSlidWitness ==
    /\ Served /\ man.curStreamTime < duration
    /\ \E i \in Real : i \notin Positions /\ i + 1 \in Positions

(***************************************************************************)
(* C2.  The manifest holds exactly the segments that are visited before    *)
(* the stop condition and satisfy the inclusion condition: none dropped,   *)
(* none added.                                                             *)
(***************************************************************************)
ManifestIsWindow ==
    Served => Positions = Qualifying(man.curStreamTime)

(***************************************************************************)
(* C3.  The sequence number of a manifest is the playlist index of its     *)
(* first segment, and the segment at position k of the manifest is the     *)
(* playlist segment of index sequence number + k (positions from 0).       *)
(***************************************************************************)
SequenceIsFirstIndex ==
    (Served /\ Len(man.Segments) > 0) =>
        /\ Small(man.SeqNo)
        /\ \A k \in DOMAIN man.Segments :
              /\ man.SeqNo[4] + k \in Real
              /\ man.Segments[k] = playlist.Segments[man.SeqNo[4] + k]

SequenceWitness ==
    Served /\ Len(man.Segments) >= 2 /\ Small(man.SeqNo) /\ man.SeqNo[4] >= 2

(***************************************************************************)
(* C4.  Between two loop resets the sequence number never goes back: a     *)
(* manifest at elapsed time t2 reports a sequence number at least that of  *)
(* the manifest of any earlier elapsed time t1 < t2 of the same loop.      *)
(***************************************************************************)
ManifestAt(t) == WindowLoop(1, 0, -1, NewMediaPlaylist, t)

SequenceMonotone ==
    Served =>
        \A t1 \in 0..(man.curStreamTime - 1) :
            ~ManifestAt(t1).panic => ManifestAt(t1).sequence <= man.sequence

SequenceMonotoneWitness ==
    /\ Served /\ man.sequence >= 2
    /\ \E t1 \in 0..(man.curStreamTime - 1) :
          ~ManifestAt(t1).panic /\ ManifestAt(t1).sequence < man.sequence

(***************************************************************************)
(* C5.  A manifest request that finds elapsed >= totalDuration, the case   *)
(* elapsed = totalDuration included, answers as at elapsed 0 and anchors   *)
(* the clock at now.                                                       *)
(***************************************************************************)
AnswersAsAtZero ==
    /\ man.reset /\ man.curStreamTime = 0
    /\ startTime = now /\ Since(startTime) = 0
    /\ (man.status = "panic") = ManifestAt(0).panic
    /\ man.sequence = ManifestAt(0).sequence
    /\ man.Segments = Encode(ManifestAt(0).curPlaylist).Segments
    /\ Served => (man.sequence = 0 /\ man.Segments[1] = playlist.Segments[1])

LoopResetFromTotal ==
    (man.status # "none" /\ man.read >= duration) => AnswersAsAtZero

\* as amended: the loop restarts once elapsed is past totalDuration; at
\* elapsed = totalDuration, and before, the clock is left alone
LoopResetPastTotal ==
    man.status # "none" =>
        /\ man.read > duration => AnswersAsAtZero
        /\ man.read <= duration =>
              /\ ~man.reset
              /\ man.curStreamTime = man.read
              /\ Since(startTime) = man.read

LoopResetWitness == Served /\ man.reset /\ man.read > duration /\ now > 0

(***************************************************************************)
(* C6.  A request for a segment whose start offset lies ahead of elapsed   *)
(* is suspended for exactly startOffset - elapsed, fraction included.      *)
(***************************************************************************)
Arrives(r) == req[r].pc \in {"idle", "done"}

GateExact ==
    [][\A r \in Slots :
          (Arrives(r) /\ req'[r].pc = "sleeping") =>
              req'[r].until - now = NominalStart(req'[r].seg) - Since(startTime)]_vars

(***************************************************************************)
(* C7.  For a segment of S bytes requested exactly at its start offset the *)
(* rate is S / segment.duration and the transfer lasts segment.duration.   *)
(***************************************************************************)
AtItsStart(r) ==
    /\ Arrives(r)
    /\ req'[r].pc = "streaming"
    /\ Since(startTime) = NominalStart(req'[r].seg)

\* rate = bytes / time, as a ratio
RateIs(rate, bytes, time) == rate.bytes * time = bytes * rate.per

RateAtStartIsDuration ==
    [][\A r \in Slots :
          AtItsStart(r) =>
              LET segment == playlist.Segments[req'[r].seg] IN
              /\ RateIs(req'[r].rateLimit, FileSize(segment.URI), segment.Duration)
              /\ req'[r].until - now = segment.Duration]_vars

\* as amended: the play time is not taken below one second
RateAtStartIsFlooredDuration ==
    [][\A r \in Slots :
          AtItsStart(r) =>
              LET segment == playlist.Segments[req'[r].seg]
                  time == Max(segment.Duration, Seconds(rateFloor))
              IN  /\ RateIs(req'[r].rateLimit, FileSize(segment.URI), time)
                  /\ req'[r].until - now = time]_vars

RateAtStartWitness ==
    \E r \in Slots :
        /\ req[r].pc = "streaming" /\ ~req[r].gated
        /\ Since(startTime) = NominalStart(req[r].seg)
        /\ req[r].until - now = req[r].rateDuration
        /\ playlist.Segments[req[r].seg].Duration > Seconds(rateFloor)
        /\ req[r].seg > 1

(***************************************************************************)
(* C8.  A segment request whose URI matches no playlist segment, or whose  *)
(* file is missing, ends with 404: it is never suspended or streamed.      *)
(***************************************************************************)
MatchesNone(name) == \A i \in Real : ~EqualFold(playlist.Segments[i].URI, name)

UnknownIsNotFound ==
    \A r \in Slots :
        (req[r].pc # "idle" /\ (MatchesNone(req[r].name) \/ Opened(req[r].name) = {})) =>
            (req[r].pc = "done" /\ req[r].status = "404")

(***************************************************************************)
(* C9.  A segment request whose URI differs from a playlist URI in letter  *)
(* case only is served through the gate and the shaper, never NotFound.    *)
(***************************************************************************)
CaseVariant(name) ==
    \E i \in Real : EqualFold(playlist.Segments[i].URI, name) /\ playlist.Segments[i].URI # name

CaseVariantIsServed ==
    \A r \in Slots :
        (req[r].pc # "idle" /\ CaseVariant(req[r].name)) =>
            \/ req[r].pc \in {"sleeping", "streaming"}
            \/ req[r].status \in {"200", "closed"}

(***************************************************************************)
(* C10.  Every request under /live/, /live/manifest.m3u8 included, gets    *)
(* the file as it is, with no windowing and no use of the stream clock.    *)
(***************************************************************************)
LiveNeverWindowed == man.status # "none" => man.path.mount # LiveMount

\* as amended: every request under /live/ but /live/manifest.m3u8 gets the
\* file as it is and leaves the stream clock alone; /live/manifest.m3u8 is
\* answered by ServeManifest
LiveFilesVerbatim ==
    [][/\ live' # NoLive =>
              /\ startTime' = startTime
              /\ (live'.status = "200") = (Opened(live'.name) # {})
              /\ (live'.status # "200") = (live'.status = "404")
              /\ live'.status = "200" => live'.size = SizeOf(live'.name)
       /\ (man' # NoManifest /\ man'.path.mount = LiveMount) =>
              man'.path.name = ManifestName]_vars

LiveFilesWitness ==
    /\ live # NoLive /\ live.status = "200"
    /\ Since(startTime) > 0
    /\ \E r \in Slots : req[r].pc = "sleeping"

(***************************************************************************)
(* C11.  While a segment request is suspended in the gate, a manifest      *)
(* request and any other segment request that arrives is taken up at once  *)
(* and runs its course without the sleeper waking: the manifest is         *)
(* answered in the step it arrives, from the clock alone, and the sleeper  *)
(* is left asleep.                                                         *)
(***************************************************************************)
Sleeping(r) == req[r].pc = "sleeping"
Free(r) == req[r].pc \in {"idle", "done"}

ServedWhileGated ==
    /\ [](\A r \in Slots : Sleeping(r) =>
            /\ ENABLED Mux(Path(LhlsMount, ManifestName))
            /\ (\E q \in Slots : Free(q)) =>
                  \A n \in {SegmentURI(1), SegmentURI(2), SegmentURI(Count)} :
                      ENABLED Mux(Path(LhlsMount, n)))
    /\ [][\A r \in Slots : (Sleeping(r) /\ now < req[r].until) =>
            /\ req'[r] = req[r]
            /\ man' # NoManifest =>
                  /\ now' = now
                  /\ man'.read = Since(startTime)
                  /\ man'.sequence = ManifestAt(man'.curStreamTime).sequence
                  /\ (man'.status = "200") = ~ManifestAt(man'.curStreamTime).panic
            /\ \A q \in Slots \ {r} :
                  (req[q].pc = "streaming" /\ now = req[q].until) => ENABLED Finish(q)]_vars

\* one request asleep in the gate while a manifest is answered, and while
\* another segment request has been served to its last byte
ManifestWhileGatedWitness ==
    /\ Served /\ Len(man.Segments) > 0
    /\ \E r \in Slots : Sleeping(r) /\ now < req[r].until

SegmentWhileGatedWitness ==
    \E r, q \in Slots :
        /\ Sleeping(r) /\ now < req[r].until
        /\ req[q].pc = "done" /\ req[q].status = "200"

(***************************************************************************)
(* C12.  Under every interleaving of manifest and segment requests, while  *)
(* the bytes of a segment are being delivered the elapsed time             *)
(* now - startTime is at least the segment's start offset.                 *)
(***************************************************************************)
Delivering(r) == req[r].pc = "streaming" /\ now < req[r].until

NeverDeliveredEarly ==
    \A r \in Slots : Delivering(r) => Since(startTime) >= NominalStart(req[r].seg)

\* a transfer that began at or after its start offset and is now ahead of the
\* clock: a manifest request has reset the clock under it
ResetUnderTransfer ==
    \E r \in Slots :
        /\ Delivering(r) /\ ~req[r].gated
        /\ Since(startTime) < NominalStart(req[r].seg)

\* a transfer that left the gate ahead of its start offset with no reset
EarlyOutOfGate ==
    \E r \in Slots :
        /\ Delivering(r) /\ req[r].gated /\ startTime = 0
        /\ Since(startTime) < NominalStart(req[r].seg)

(***************************************************************************)
(* C13.  Every manifest computed holds at least one segment, and its       *)
(* sequence number is never the -1 sentinel, that is never the huge        *)
(* unsigned value uint64(-1).                                              *)
(***************************************************************************)
ManifestNeverEmpty ==
    /\ man.status # "none" => (man.sequence >= 0 /\ man.sequence < Count)
    /\ Served =>
          /\ Len(man.Segments) >= 1
          /\ man.SeqNo # Uint64(-1)
          /\ Small(man.SeqNo) /\ man.SeqNo[4] = man.sequence

\* the manifest of the last instant of a loop: nothing is left to play but
\* the three target durations kept behind the play head
ManifestAtTotalWitness ==
    /\ Served /\ man.curStreamTime = duration
    /\ man.sequence > 0 /\ Len(man.Segments) >= 1

(***************************************************************************)
(* C14.  The stream clock is written only by ServeManifest on its reset    *)
(* path: no step of ServeSegment changes startTime, whether it ends in     *)
(* 404, is gated or streams at once, and ServeManifest leaves startTime    *)
(* as it is whenever elapsed has not passed totalDuration.                 *)
(***************************************************************************)
ClockWrittenOnlyByReset ==
    [][/\ startTime' # startTime =>
              /\ man' # NoManifest /\ man'.reset
              /\ man'.read > duration
              /\ startTime' = now
       /\ (man' # NoManifest /\ man'.read <= duration) => startTime' = startTime
       /\ (\E r \in Slots : req'[r] # req[r] /\ req'[r].pc # "idle") =>
              startTime' = startTime]_vars

\* a manifest served without a reset while a request that went through the
\* gate is streaming: neither has moved the clock
ClockUntouchedWitness ==
    /\ Served /\ ~man.reset /\ man.read > 0
    /\ startTime = 0
    /\ \E r \in Slots : req[r].pc = "streaming" /\ req[r].gated

(***************************************************************************)
(* C15.  In every reachable state, after construction and after any clock  *)
(* reset, elapsed = now - startTime is at least 0: startTime is never      *)
(* later than now, and no handler reads a negative elapsed time.           *)
(***************************************************************************)
ElapsedNeverNegative ==
    /\ startTime <= now
    /\ Since(startTime) >= 0
    /\ man.status # "none" => (man.read >= 0 /\ man.curStreamTime >= 0)

\* the instant of a reset, where elapsed is back at 0 on a clock that has run
JustReanchoredWitness ==
    /\ man.status # "none" /\ man.reset
    /\ startTime = now /\ startTime > 0

(***************************************************************************)
(* C16.  For a request that was gated, the rate is computed with elapsed   *)
(* taken as the start offset, not measured again: the play time is         *)
(* max(segment.duration, 1 s) and the rate is the file size over it,       *)
(* however early the request arrived.                                      *)
(***************************************************************************)
GatedRateFromStartOffset ==
    \A r \in Slots :
        (req[r].pc = "streaming" /\ req[r].gated) =>
            LET segment == playlist.Segments[req[r].seg]
                time == Max(segment.Duration, Seconds(rateFloor))
            IN  /\ req[r].rateDuration = time
                /\ RateIs(req[r].rateLimit, FileSize(segment.URI), time)

\* a gated request that woke before its start offset: a second reading of
\* the clock would have given a longer play time
GatedRateWitness ==
    \E r \in Slots :
        /\ req[r].pc = "streaming" /\ req[r].gated
        /\ req[r].until = now + req[r].rateDuration
        /\ Since(startTime) < NominalStart(req[r].seg)
        /\ playlist.Segments[req[r].seg].Duration > Seconds(rateFloor)

(***************************************************************************)
(* C17.  The play time used for shaping is never below one second, so the  *)
(* rate never exceeds the file size in bytes per second; and a segment     *)
(* request that arrives once totalDuration has elapsed, before a manifest  *)
(* request has reset the clock, is not gated and is shaped over the        *)
(* one-second floor.                                                       *)
(***************************************************************************)
RateFloorAndStaleClock ==
    /\ [](\A r \in Slots :
            req[r].pc = "streaming" =>
                /\ req[r].rateDuration >= Seconds(rateFloor)
                /\ req[r].rateLimit.bytes * TicksPerSecond
                      <= FileSize(playlist.Segments[req[r].seg].URI) * req[r].rateLimit.per)
    /\ [][\A r \in Slots :
            (/\ Arrives(r) /\ req'[r].pc \in {"sleeping", "streaming"}
             /\ Since(startTime) >= duration) =>
                /\ req'[r].pc = "streaming" /\ ~req'[r].gated
                /\ req'[r].rateDuration = Seconds(rateFloor)
                /\ RateIs(req'[r].rateLimit, FileSize(playlist.Segments[req'[r].seg].URI),
                          Seconds(rateFloor))
                /\ startTime' = startTime]_vars

\* the first segment, asked for after the whole playlist has played and
\* before any reset: streamed at once over the floor
StaleClockWitness ==
    \E r \in Slots :
        /\ req[r].pc = "streaming" /\ ~req[r].gated /\ req[r].seg = 1
        /\ startTime = 0 /\ Since(startTime) >= duration
        /\ req[r].until = now + Seconds(rateFloor)

(***************************************************************************)
(* C18.  The stream loops for ever: with manifests requested again and     *)
(* again as time advances, the clock is re-anchored infinitely often and   *)
(* a manifest with sequence number 0 is produced infinitely often; and the *)
(* elapsed time a window is computed for never exceeds totalDuration.      *)
(***************************************************************************)
PolledForEver == []<>(man.status # "none")

ReanchoredForEver ==
    PolledForEver => []<>(man.status # "none" /\ man.reset /\ startTime = now)
SequenceZeroForEver ==
    PolledForEver => []<>(Served /\ man.sequence = 0 /\ Len(man.Segments) > 0)
EffectiveElapsedWithinTotal == [](man.status # "none" => man.curStreamTime <= duration)

LoopsForEver ==
    /\ ReanchoredForEver
    /\ SequenceZeroForEver
    /\ EffectiveElapsedWithinTotal

(***************************************************************************)
(* C19.  Every segment request terminates: the gate suspends it for a      *)
(* finite time, strictly less than totalDuration, and the shaped transfer  *)
(* that follows ends when the file is exhausted or the connection closes,  *)
(* at the latest after the clamped play time.                              *)
(***************************************************************************)
TimeAdvances == []<><<Elapse>>_vars

SegmentRequestsTerminate ==
    /\ [](\A r \in Slots :
            /\ req[r].pc = "sleeping" =>
                  (req[r].until >= now /\ req[r].until - now < duration)
            /\ req[r].pc = "streaming" =>
                  /\ req[r].until >= now
                  /\ req[r].until - now <= req[r].rateDuration
                  /\ req[r].rateDuration <= Max(duration, Seconds(rateFloor)))
    /\ TimeAdvances =>
          \A r \in 1..MaxReq :
              (req[r].pc \in {"sleeping", "streaming"}) ~> (req[r].pc = "done")

\* a request that went through the gate and the shaper to its last byte
GatedAndFinishedWitness ==
    \E r \in Slots :
        /\ req[r].pc = "done" /\ req[r].status = "200" /\ req[r].gated
        /\ req[r].seg > 1

=============================================================================
